---- MODULE Spec2Model ----
(***************************************************************************)
(* Model of backend/app.py (sol-year): the solstice locator, the phase     *)
(* cycle builder, the phase locator and the progress / solstice-counter    *)
(* part of the /data handler.                                              *)
(*                                                                         *)
(* A datetime.date is modelled by its proleptic Gregorian ordinal          *)
(* (date.toordinal()); date(y, m, d) raises ValueError outside             *)
(* MINYEAR..MAXYEAR and date +/- timedelta raises OverflowError outside    *)
(* 1..MAXORDINAL, as the datetime module does.  The floating point solar   *)
(* figures (altitude, sun-up duration, sunrise, sunset) do not influence   *)
(* the phase, progress or solstice results and are not modelled.           *)
(* progress is kept as the exact fraction num/den of the value the code    *)
(* computes in floating point.                                             *)
(***************************************************************************)
EXTENDS Integers, Sequences, FiniteSets, TLC

----------------------------------------------------------------------------
(* Bounds of the model: the inputs are the dates of a few windows of       *)
(* Span + 1 consecutive years.                                             *)

Span == 2

----------------------------------------------------------------------------
(* datetime.date                                                           *)

MINYEAR == 1

MAXYEAR == 9999

MAXORDINAL == 3652059

NoDate == 0

NoYear == 0 - 1

IsLeap(y) == (y % 4 = 0) /\ ((y % 100 # 0) \/ (y % 400 = 0))

DaysInMonth(y, m) ==
    IF m = 2 THEN (IF IsLeap(y) THEN 29 ELSE 28)
    ELSE IF m \in {4, 6, 9, 11} THEN 30 ELSE 31

DaysBeforeMonth(y, m) ==
    << 0, 31, 59, 90, 120, 151, 181, 212, 243, 273, 304, 334 >>[m]
       + (IF m > 2 /\ IsLeap(y) THEN 1 ELSE 0)

DaysBeforeYear(y) ==
    (y - 1) * 365 + ((y - 1) \div 4) - ((y - 1) \div 100) + ((y - 1) \div 400)

ValidYear(y) == MINYEAR <= y /\ y <= MAXYEAR

ValidDate(o) == 1 <= o /\ o <= MAXORDINAL

\* date(y, m, d).toordinal(), for a year the constructor accepts
Ymd2Ord(y, m, d) == DaysBeforeYear(y) + DaysBeforeMonth(y, m) + d

\* d.year
YearOf(o) ==
    LET n0   == o - 1
        n400 == n0 \div 146097
        r400 == n0 % 146097
        n100 == r400 \div 36524
        r100 == r400 % 36524
        n4   == r100 \div 1461
        r4   == r100 % 1461
        n1   == r4 \div 365
        y    == n400 * 400 + n100 * 100 + n4 * 4 + n1 + 1
    IN  IF n1 = 4 \/ n100 = 4 THEN y - 1 ELSE y

\* d.month
MonthOf(o) ==
    LET y   == YearOf(o)
        doy == o - DaysBeforeYear(y)
    IN  CHOOSE m \in 1..12 :
            DaysBeforeMonth(y, m) < doy
            /\ doy <= DaysBeforeMonth(y, m) + DaysInMonth(y, m)

----------------------------------------------------------------------------
(* CONFIG                                                                  *)

WEEK == 7

\* a seven-week fixed block
FIXED_DAYS_seven_weeks == 7 * WEEK

FIXED_DAYS == 6 * WEEK

HARD_DAYS == 6 * WEEK

HARD_WEEK_NAMES ==
    << "Pre-Low Week", "Pre-Mid Week", "Pre-Peak Week",
       "Post-Peak Week", "Post-Mid Week", "Post-Low Week" >>

----------------------------------------------------------------------------
(* SOLSTICES                                                               *)

winter_solstice(y) == Ymd2Ord(y, 12, 21)

summer_solstice(y) == Ymd2Ord(y, 6, 21)

solstice_name(d) == IF MonthOf(d) = 6 THEN "Summer" ELSE "Winter"

----------------------------------------------------------------------------
(* PHASE MODEL                                                             *)

Phase(name, season, kind, start, end, pos, variable) ==
    [ name |-> name, season |-> season, kind |-> kind,
      start |-> start, end |-> end, pos |-> pos, variable |-> variable ]

NoPhase == Phase("None", "None", "None", NoDate, NoDate, "None", FALSE)

\* add(): a phase with start > end is dropped
add(phases, ph) == IF ph.start > ph.end THEN phases ELSE Append(phases, ph)

\* the hard phase anchored one day late
hard_start_late(solstice) == solstice - 20

\* ws - timedelta(days=21), ss - timedelta(days=21), ws_next - timedelta(days=21)
hard_start(solstice) == solstice - 21

\* start + timedelta(days=HARD_DAYS - 1)
hard_end(start) == start + (HARD_DAYS - 1)

\* the end of a fixed block taken as p + FIXED_DAYS
fixed_end_long(p) == p + FIXED_DAYS

\* p + timedelta(days=FIXED_DAYS - 1)
fixed_end(p) == p + (FIXED_DAYS - 1)

\* the cursor moved one day too far
advance_skip(p) == p + FIXED_DAYS + 1

\* p += timedelta(days=FIXED_DAYS)
advance(p) == p + FIXED_DAYS

\* winter_hard_end + timedelta(days=1), summer_hard_end + timedelta(days=1)
day_after(d) == d + 1

\* a variable phase ending on the next hard start itself
day_before_same(d) == d

\* summer_hard_start - timedelta(days=1), next_winter_hard_start - timedelta(days=1)
day_before(d) == d - 1

\* The local dates of build_cycle, for a winter year whose three solstices
\* the date constructor accepts.
CycleLocals(winter_year) ==
    LET ws  == winter_solstice(winter_year)
        ss  == summer_solstice(winter_year + 1)
        wsn == winter_solstice(winter_year + 1)
        whs == hard_start(ws)
        whe == hard_end(whs)
        shs == hard_start(ss)
        she == hard_end(shs)
        nws == hard_start(wsn)
        p1  == day_after(whe)
        p2  == advance(p1)
        p3  == advance(p2)
        p4  == advance(p3)
        q1  == day_after(she)
        q2  == advance(q1)
        q3  == advance(q2)
        q4  == advance(q3)
    IN  [ ws |-> ws, ss |-> ss, ws_next |-> wsn,
          winter_hard_start |-> whs, winter_hard_end |-> whe,
          summer_hard_start |-> shs, summer_hard_end |-> she,
          next_winter_hard_start |-> nws,
          p1 |-> p1, p2 |-> p2, p3 |-> p3, p4 |-> p4,
          q1 |-> q1, q2 |-> q2, q3 |-> q3, q4 |-> q4 ]

\* The ten add() calls of build_cycle, in order
CyclePhases(winter_year) ==
    LET c  == CycleLocals(winter_year)
        s0 == << >>
        s1 == add(s0, Phase("Winter Hard", "Winter", "hard",
                            c.winter_hard_start, c.winter_hard_end, "None", FALSE))
        s2 == add(s1, Phase("Winter Transit 1", "Winter", "transit",
                            c.p1, fixed_end(c.p1), "after", FALSE))
        s3 == add(s2, Phase("Winter Transit 2", "Winter", "transit",
                            c.p2, fixed_end(c.p2), "after", FALSE))
        s4 == add(s3, Phase("Summer Transit 1", "Summer", "transit",
                            c.p3, fixed_end(c.p3), "None", FALSE))
        s5 == add(s4, Phase("Summer Transit 2", "Summer", "transit",
                            c.p4, day_before(c.summer_hard_start), "None", TRUE))
        s6 == add(s5, Phase("Summer Hard", "Summer", "hard",
                            c.summer_hard_start, c.summer_hard_end, "None", FALSE))
        s7 == add(s6, Phase("Summer Transit 1", "Summer", "transit",
                            c.q1, fixed_end(c.q1), "None", FALSE))
        s8 == add(s7, Phase("Summer Transit 2", "Summer", "transit",
                            c.q2, fixed_end(c.q2), "None", FALSE))
        s9 == add(s8, Phase("Winter Transit 1", "Winter", "transit",
                            c.q3, fixed_end(c.q3), "before", FALSE))
        s10 == add(s9, Phase("Winter Transit 2", "Winter", "transit",
                            c.q4, day_before(c.next_winter_hard_start), "before", TRUE))
    IN  s10

\* Every date value build_cycle computes with timedelta arithmetic
CycleDates(winter_year) ==
    LET c == CycleLocals(winter_year)
    IN  { c.winter_hard_start, c.winter_hard_end, c.summer_hard_start,
          c.summer_hard_end, c.next_winter_hard_start,
          c.p1, c.p2, c.p3, c.p4, c.q1, c.q2, c.q3, c.q4,
          fixed_end(c.p1), fixed_end(c.p2), fixed_end(c.p3),
          day_before(c.summer_hard_start),
          fixed_end(c.q1), fixed_end(c.q2), fixed_end(c.q3),
          day_before(c.next_winter_hard_start) }

\* build_cycle(winter_year): the list of phases, or the exception raised
build_cycle(winter_year) ==
    IF ~ValidYear(winter_year) \/ ~ValidYear(winter_year + 1)
    THEN [ status |-> "ValueError", phases |-> << >> ]
    ELSE IF \E d \in CycleDates(winter_year) : ~ValidDate(d)
    THEN [ status |-> "OverflowError", phases |-> << >> ]
    ELSE [ status |-> "ok", phases |-> CyclePhases(winter_year) ]

\* the interval taken as half open
Contains_half_open(ph, today) == ph.start <= today /\ today < ph.end

\* ph["start"] <= today <= ph["end"]
Contains(ph, today) == ph.start <= today /\ today <= ph.end

\* the first phase of the list that contains today (0: none)
FirstMatch(phases, today) ==
    IF \E i \in 1..Len(phases) : Contains(phases[i], today)
    THEN CHOOSE i \in 1..Len(phases) :
            /\ Contains(phases[i], today)
            /\ \A j \in 1..(i - 1) : ~Contains(phases[j], today)
    ELSE 0

\* the winter years find_phase scans, in order
CandidateYears(today) ==
    << YearOf(today) - 1, YearOf(today), YearOf(today) + 1 >>

----------------------------------------------------------------------------
(* SOLSTICE COUNTERS                                                       *)

Max(S) == CHOOSE x \in S : \A y \in S : y <= x

Min(S) == CHOOSE x \in S : \A y \in S : x <= y

\* the six dates of the list sols
Sols(today) ==
    { summer_solstice(YearOf(today) - 1), winter_solstice(YearOf(today) - 1),
      summer_solstice(YearOf(today)),     winter_solstice(YearOf(today)),
      summer_solstice(YearOf(today) + 1), winter_solstice(YearOf(today) + 1) }

\* s for s in sols if s <= today
PastSols(today) == { s \in Sols(today) : s <= today }

\* s for s in sols if s > today
FutureSols(today) == { s \in Sols(today) : s > today }

\* last_next_solstice(today): the pair (last_sol, next_sol), or the exception
\* raised (by the date constructor, or by max()/min() of an empty sequence)
last_next_solstice(today) ==
    IF ~ValidYear(YearOf(today) - 1) \/ ~ValidYear(YearOf(today) + 1)
    THEN [ status |-> "ValueError", sols |-> << >> ]
    ELSE IF PastSols(today) = {} \/ FutureSols(today) = {}
    THEN [ status |-> "ValueError: empty sequence", sols |-> << >> ]
    ELSE [ status |-> "ok",
           sols |-> << Max(PastSols(today)), Min(FutureSols(today)) >> ]

----------------------------------------------------------------------------
(* ROUTES: the progress and solstice-counter part of data()                *)

\* (ph["end"] - ph["start"]).days + 1
TotalDays(p) == (p.end - p.start) + 1

\* a one-based day index
DayIndex_one_based(p, today) == (today - p.start) + 1

\* (today - ph["start"]).days
DayIndex(p, today) == today - p.start

\* day_index // WEEK
WeekIdx(day_index) == day_index \div WEEK

\* HARD_WEEK_NAMES[week_idx] is defined (a negative index counts from the end)
IndexInRange(i) ==
    (0 - Len(HARD_WEEK_NAMES)) <= i /\ i < Len(HARD_WEEK_NAMES)

\* HARD_WEEK_NAMES[week_idx]
WeekName(i) ==
    IF i < 0 THEN HARD_WEEK_NAMES[i + Len(HARD_WEEK_NAMES) + 1]
    ELSE HARD_WEEK_NAMES[i + 1]

\* ((day_index % WEEK) + 1) / WEEK * 100.0, as the fraction num / den
HardProgress(day_index) ==
    [ num |-> ((day_index % WEEK) + 1) * 100, den |-> WEEK ]

\* ((day_index + 1) / total_days) * 100.0, as the fraction num / den
TransitProgress(day_index, total_days) ==
    [ num |-> (day_index + 1) * 100, den |-> total_days ]

\* The "Progress" block: the locals it assigns, or the exception it raises
ProgressBlock(p, today) ==
    LET total_days == TotalDays(p)
        day_index  == DayIndex(p, today)
        base       == [ total_days |-> total_days, day_index |-> day_index ]
        week_idx   == WeekIdx(day_index)
    IN  IF p.kind = "hard"
        THEN IF ~IndexInRange(week_idx)
             THEN [ status |-> "IndexError",
                    locals |-> base @@ [ week_idx |-> week_idx ] ]
             ELSE [ status |-> "ok",
                    locals |-> base @@
                       [ week_idx |-> week_idx,
                         title    |-> << p.season, WeekName(week_idx) >>,
                         progress |-> HardProgress(day_index) ] ]
        ELSE IF total_days = 0
             THEN [ status |-> "ZeroDivisionError", locals |-> base ]
             ELSE [ status |-> "ok",
                    locals |-> base @@
                       [ title    |-> << p.name >>,
                         progress |-> TransitProgress(day_index, total_days) ] ]

\* The "Solstice counters" block
SolsticeBlock(today) ==
    LET r         == last_next_solstice(today)
        last_sol  == r.sols[1]
        next_sol  == r.sols[2]
        from_days == today - last_sol
        to_days   == next_sol - today
    IN  IF r.status # "ok"
        THEN [ status |-> r.status, locals |-> << >> ]
        ELSE [ status |-> "ok",
               locals |-> [ last_sol |-> last_sol, next_sol |-> next_sol,
                            from_days |-> from_days, to_days |-> to_days,
                            sol_line |-> << from_days, solstice_name(last_sol),
                                            to_days, solstice_name(next_sol) >> ] ]

----------------------------------------------------------------------------------------------------------------------------------------------
(* The program: every call is computed from its input alone.  find_phase   *)
(* and data() are followed statement by statement; build_cycle and         *)
(* last_next_solstice are evaluated as functions.                          *)

Windows == { MINYEAR, 1999, 2023, 2099, MAXYEAR - Span }

Years == UNION { w .. (w + Span) : w \in Windows }

\* the dates a request can carry (?date=YYYY-MM-DD, or date.today())
Dates == UNION { (DaysBeforeYear(y) + 1) .. DaysBeforeYear(y + 1) : y \in Years }

\* the winter years find_phase passes to build_cycle for those dates
WinterYears == UNION { { y - 1, y, y + 1 } : y \in Years }

VARIABLES
    pc,           \* "idle", the statement a call has reached, or "done"
    op,           \* the function that was called
    today,        \* its date argument
    winter_year,  \* the winter year passed to build_cycle
    wys,          \* find_phase: the winter years still to scan
    status,       \* "ok", or the exception that ended the call
    phases,       \* the list build_cycle returned
    ph,           \* the phase find_phase returned
    sols,         \* the pair last_next_solstice returned
    locals        \* data(): the locals assigned so far

vars == << pc, op, today, winter_year, wys, status, phases, ph, sols, locals >>

Init ==
    /\ pc = "idle"
    /\ op = "none"
    /\ today = NoDate
    /\ winter_year = NoYear
    /\ wys = << >>
    /\ status = "none"
    /\ phases = << >>
    /\ ph = NoPhase
    /\ sols = << >>
    /\ locals = << >>

\* build_cycle(wy), called on its own
CallBuildCycle ==
    /\ pc = "idle"
    /\ \E wy \in WinterYears :
          \E r \in { build_cycle(wy) } :
              /\ winter_year' = wy
              /\ status' = r.status
              /\ phases' = r.phases
    /\ pc' = "done"
    /\ op' = "build_cycle"
    /\ UNCHANGED << today, wys, ph, sols, locals >>

\* last_next_solstice(d), called on its own
CallLastNextSolstice ==
    /\ pc = "idle"
    /\ \E d \in Dates :
          \E r \in { last_next_solstice(d) } :
              /\ today' = d
              /\ status' = r.status
              /\ sols' = r.sols
    /\ pc' = "done"
    /\ op' = "last_next_solstice"
    /\ UNCHANGED << winter_year, wys, phases, ph, locals >>

\* find_phase(d), called on its own: enter the loop over the winter years
CallFindPhase ==
    /\ pc = "idle"
    /\ \E d \in Dates :
          /\ today' = d
          /\ wys' = CandidateYears(d)
    /\ pc' = "for_wy"
    /\ op' = "find_phase"
    /\ UNCHANGED << winter_year, status, phases, ph, sols, locals >>

\* GET /data: today is the override date or date.today(); ph = find_phase(today)
CallData ==
    /\ pc = "idle"
    /\ \E d \in Dates :
          /\ today' = d
          /\ wys' = CandidateYears(d)
    /\ pc' = "for_wy"
    /\ op' = "data"
    /\ UNCHANGED << winter_year, status, phases, ph, sols, locals >>

\* find_phase: for wy in (...): build_cycle(wy); an exception of build_cycle
\* ends the call
ForWinterYear ==
    /\ pc = "for_wy"
    /\ wys # << >>
    /\ winter_year' = Head(wys)
    /\ wys' = Tail(wys)
    /\ \E r \in { build_cycle(Head(wys)) } :
          IF r.status = "ok"
          THEN /\ phases' = r.phases
               /\ pc' = "for_ph"
               /\ UNCHANGED status
          ELSE /\ status' = r.status
               /\ pc' = "done"
               /\ UNCHANGED phases
    /\ UNCHANGED << op, today, ph, sols, locals >>

\* find_phase: for ph in build_cycle(wy): return the first phase containing
\* today; after the last winter year, raise RuntimeError
ForPhase ==
    /\ pc = "for_ph"
    /\ \E i \in { FirstMatch(phases, today) } :
          IF i # 0
          THEN /\ ph' = phases[i]
               /\ IF op = "data"
                  THEN pc' = "progress" /\ UNCHANGED status
                  ELSE pc' = "done" /\ status' = "ok"
          ELSE /\ UNCHANGED ph
               /\ IF wys # << >>
                  THEN pc' = "for_wy" /\ UNCHANGED status
                  ELSE pc' = "done" /\ status' = "RuntimeError"
    /\ UNCHANGED << op, today, winter_year, wys, phases, sols, locals >>

\* data(): the Progress block
Progress ==
    /\ pc = "progress"
    /\ \E r \in { ProgressBlock(ph, today) } :
          /\ locals' = r.locals
          /\ IF r.status = "ok"
             THEN pc' = "solstice" /\ UNCHANGED status
             ELSE pc' = "done" /\ status' = r.status
    /\ UNCHANGED << op, today, winter_year, wys, phases, ph, sols >>

\* data(): the Solstice counters block and the response
Solstice ==
    /\ pc = "solstice"
    /\ \E r \in { SolsticeBlock(today) } :
          /\ locals' = locals @@ r.locals
          /\ status' = r.status
    /\ pc' = "done"
    /\ UNCHANGED << op, today, winter_year, wys, phases, ph, sols >>

\* nothing is kept between calls
Return ==
    /\ pc = "done"
    /\ pc' = "idle"
    /\ op' = "none"
    /\ today' = NoDate
    /\ winter_year' = NoYear
    /\ wys' = << >>
    /\ status' = "none"
    /\ phases' = << >>
    /\ ph' = NoPhase
    /\ sols' = << >>
    /\ locals' = << >>

Next ==
    \/ CallBuildCycle
    \/ CallLastNextSolstice
    \/ CallFindPhase
    \/ CallData
    \/ ForWinterYear
    \/ ForPhase
    \/ Progress
    \/ Solstice
    \/ Return

Spec == Init /\ [][Next]_vars

----------------------------------------------------------------------------
(* Properties                                                              *)

\* the cycle a finished build_cycle call returned
CycleBuilt == op = "build_cycle" /\ pc = "done" /\ status = "ok"

\* (end - start).days + 1
Length(p) == (p.end - p.start) + 1

\* the phases of the three candidate cycles of today that contain today
Matches(d) ==
    { m \in { CandidateYears(d)[k] : k \in 1..3 } \X (1..10) :
        /\ build_cycle(m[1]).status = "ok"
        /\ m[2] <= Len(build_cycle(m[1]).phases)
        /\ Contains(build_cycle(m[1]).phases[m[2]], d) }

\* C1: for every date d, find_phase(d) returns a phase, and that phase
\* satisfies start <= d <= end.
C1_FindPhaseReturnsContainingPhase ==
    (op = "find_phase" /\ pc = "done") => (status = "ok" /\ Contains(ph, today))

\* C2: for every date d, exactly one phase of the three candidate cycles
\* contains d, and it is the phase find_phase returns.
C2_ExactlyOneMatch ==
    (op = "find_phase" /\ pc = "done") =>
        /\ Cardinality(Matches(today)) = 1
        /\ \A m \in Matches(today) : ph = build_cycle(m[1]).phases[m[2]]

\* C3: consecutive phases of a built cycle are gapless and non-overlapping:
\* phase[i+1].start = phase[i].end + 1 day.
C3_Gapless ==
    CycleBuilt =>
        \A i \in 1..(Len(phases) - 1) : phases[i + 1].start = phases[i].end + 1

C3_Witness ==
    /\ CycleBuilt
    /\ Len(phases) = 10
    /\ phases[5].variable /\ phases[6].start = phases[5].end + 1
    /\ phases[10].variable /\ phases[10].start = phases[9].end + 1

\* C4: every hard phase and every non-variable transit phase of a built
\* cycle is exactly 42 days long.
C4_FixedLengths ==
    CycleBuilt =>
        \A i \in 1..Len(phases) :
            /\ phases[i].kind = "hard" => Length(phases[i]) = 42
            /\ (phases[i].kind = "transit" /\ ~phases[i].variable)
                  => Length(phases[i]) = 42

C4_Witness ==
    /\ CycleBuilt
    /\ \E i \in 1..Len(phases) : phases[i].kind = "hard"
    /\ \E i \in 1..Len(phases) : phases[i].kind = "transit" /\ ~phases[i].variable
    /\ \E i \in 1..Len(phases) : phases[i].kind = "transit" /\ phases[i].variable

\* C5: Winter Hard runs from 21 days before the winter solstice of wy to 20
\* days after it (30 November wy .. 10 January wy+1), Summer Hard from 21 days
\* before the summer solstice of wy+1 to 20 days after it (31 May .. 11 July
\* of wy+1); each hard phase contains its solstice.
C5_HardAnchors ==
    CycleBuilt =>
        /\ \E i \in 1..Len(phases) : phases[i].name = "Winter Hard"
        /\ \E i \in 1..Len(phases) : phases[i].name = "Summer Hard"
        /\ \A i \in 1..Len(phases) :
              /\ phases[i].kind = "hard"
                    => phases[i].name \in { "Winter Hard", "Summer Hard" }
              /\ phases[i].name = "Winter Hard" =>
                    /\ phases[i].start = Ymd2Ord(winter_year, 12, 21) - 21
                    /\ phases[i].end = Ymd2Ord(winter_year, 12, 21) + 20
                    /\ phases[i].start = Ymd2Ord(winter_year, 11, 30)
                    /\ phases[i].end = Ymd2Ord(winter_year + 1, 1, 10)
                    /\ Contains(phases[i], Ymd2Ord(winter_year, 12, 21))
              /\ phases[i].name = "Summer Hard" =>
                    /\ phases[i].start = Ymd2Ord(winter_year + 1, 6, 21) - 21
                    /\ phases[i].end = Ymd2Ord(winter_year + 1, 6, 21) + 20
                    /\ phases[i].start = Ymd2Ord(winter_year + 1, 5, 31)
                    /\ phases[i].end = Ymd2Ord(winter_year + 1, 7, 11)
                    /\ Contains(phases[i], Ymd2Ord(winter_year + 1, 6, 21))

C5_Witness ==
    /\ CycleBuilt
    /\ winter_year = 2024
    /\ phases[1].name = "Winter Hard"
    /\ phases[1].start = Ymd2Ord(2024, 11, 30)
    /\ phases[1].end = Ymd2Ord(2025, 1, 10)
    /\ phases[6].name = "Summer Hard"

\* C6: a built cycle covers exactly winter_solstice(wy) - 21 days through
\* winter_solstice(wy+1) - 22 days: it ends the day before the cycle of wy+1
\* begins and does not include the next Winter Hard phase.
C6_CycleSpan ==
    CycleBuilt =>
        /\ Len(phases) >= 1
        /\ phases[1].start = Ymd2Ord(winter_year, 12, 21) - 21
        /\ phases[Len(phases)].end = Ymd2Ord(winter_year + 1, 12, 21) - 22
        /\ \A i \in 1..Len(phases) :
              /\ phases[1].start <= phases[i].start
              /\ phases[i].end <= phases[Len(phases)].end
        /\ build_cycle(winter_year + 1).status = "ok" =>
              build_cycle(winter_year + 1).phases[1].start
                 = phases[Len(phases)].end + 1

C6_Witness ==
    /\ CycleBuilt
    /\ build_cycle(winter_year + 1).status = "ok"
    /\ phases[Len(phases)].variable
    /\ phases[Len(phases)].end = Ymd2Ord(winter_year + 1, 11, 29)

\* C7: for every date d, last_next_solstice(d) succeeds and returns
\* (last, next) with last <= d < next, last the latest 21 June / 21 December
\* not after d and next the earliest one after d, next - last is 182 or 183
\* days, and last = d when d is a solstice.
C7_LastNextSolstice ==
    (op = "last_next_solstice" /\ pc = "done") =>
        /\ status = "ok"
        /\ sols[1] <= today /\ today < sols[2]
        /\ (sols[2] - sols[1]) \in { 182, 183 }
        /\ \A y \in (YearOf(today) - 1)..(YearOf(today) + 1) :
              \A s \in { Ymd2Ord(y, 6, 21), Ymd2Ord(y, 12, 21) } :
                  /\ s <= today => s <= sols[1]
                  /\ s > today => sols[2] <= s
        /\ today \in Sols(today) => sols[1] = today

\* C8: in data(), on the last day of a hard phase H the phase found is H and
\* progress is 100% (last day of the sixth week); on the day after, the phase
\* found is the transit phase that follows H in its cycle (Winter Transit 1
\* "after" / Summer Transit 1) and day_index is 0.
C8_HardBoundary ==
    (op = "data" /\ pc = "done") =>
        \A wy \in WinterYears :
            LET r == build_cycle(wy)
            IN  r.status = "ok" =>
                  \A i \in 1..Len(r.phases) :
                    LET H == r.phases[i]
                    IN  H.kind = "hard" =>
                          /\ today = H.end =>
                                /\ ph = H
                                /\ "progress" \in DOMAIN locals
                                /\ locals.week_idx = 5
                                /\ locals.progress.num = 100 * locals.progress.den
                          /\ today = H.end + 1 =>
                                /\ i < Len(r.phases)
                                /\ ph = r.phases[i + 1]
                                /\ ph.kind = "transit"
                                /\ ph.name = (IF H.season = "Winter"
                                              THEN "Winter Transit 1"
                                              ELSE "Summer Transit 1")
                                /\ H.season = "Winter" => ph.pos = "after"
                                /\ "day_index" \in DOMAIN locals
                                /\ locals.day_index = 0

C8_Witness ==
    /\ op = "data" /\ pc = "done"
    /\ ph.kind = "hard"
    /\ today = ph.end
    /\ locals.progress.num = 100 * locals.progress.den

\* C9: with the default constants a built cycle has exactly the 10 phases, in
\* order, none degenerate; only the 5th and 10th are variable, the 5th 14 days
\* long (15 when wy+1 is a leap year) and the 10th 15 days long.
C9_TenPhases ==
    CycleBuilt =>
        /\ [ i \in 1..Len(phases) |-> phases[i].name ] =
              << "Winter Hard", "Winter Transit 1", "Winter Transit 2",
                 "Summer Transit 1", "Summer Transit 2", "Summer Hard",
                 "Summer Transit 1", "Summer Transit 2",
                 "Winter Transit 1", "Winter Transit 2" >>
        /\ [ i \in 1..Len(phases) |-> phases[i].pos ] =
              << "None", "after", "after", "None", "None", "None",
                 "None", "None", "before", "before" >>
        /\ \A i \in 1..Len(phases) :
              /\ phases[i].start <= phases[i].end
              /\ phases[i].variable <=> i \in { 5, 10 }
        /\ Length(phases[5]) = (IF IsLeap(winter_year + 1) THEN 15 ELSE 14)
        /\ Length(phases[10]) = 15

C9_Witness ==
    /\ CycleBuilt
    /\ Len(phases) = 10
    /\ IsLeap(winter_year + 1)
    /\ Length(phases[5]) = 15

\* C10: in data(), once find_phase has returned ph: 0 <= day_index <
\* total_days; for a hard phase day_index // 7 is in 0..5 and the
\* HARD_WEEK_NAMES lookup does not fail; 0 < progress <= 100.
C10_ProgressInRange ==
    (op = "data" /\ pc \in { "solstice", "done" } /\ ph # NoPhase) =>
        /\ { "day_index", "total_days", "progress" } \subseteq DOMAIN locals
        /\ 0 <= locals.day_index /\ locals.day_index < locals.total_days
        /\ ph.kind = "hard" =>
              /\ locals.week_idx \in 0..5
              /\ locals.week_idx = locals.day_index \div 7
        /\ status # "IndexError"
        /\ locals.progress.den > 0
        /\ locals.progress.num > 0
        /\ locals.progress.num <= 100 * locals.progress.den

C10_Witness ==
    /\ op = "data" /\ pc = "done"
    /\ ph.kind = "hard"
    /\ locals.week_idx = 5
    /\ locals.day_index = locals.total_days - 1

----------------------------------------------------------------------------
(* Where the calls of C1, C2 and C7 end in an exception                    *)

\* find_phase raises exactly on the dates of year MINYEAR and from 30
\* November MAXYEAR on, always ValueError and never RuntimeError; on every
\* other date it returns the one phase of the candidate cycles containing d.
FindPhaseOutcome ==
    (op = "find_phase" /\ pc = "done") =>
        IF YearOf(today) = MINYEAR \/ today >= Ymd2Ord(MAXYEAR, 11, 30)
        THEN status = "ValueError"
        ELSE /\ status = "ok"
             /\ Contains(ph, today)
             /\ Cardinality(Matches(today)) = 1
             /\ \A m \in Matches(today) : ph = build_cycle(m[1]).phases[m[2]]

\* last_next_solstice raises exactly on the dates of the years MINYEAR and
\* MAXYEAR (ValueError of the date constructor, never an empty candidate
\* set); on every other date the properties of C7 hold.
LastNextSolsticeOutcome ==
    (op = "last_next_solstice" /\ pc = "done") =>
        IF YearOf(today) \in { MINYEAR, MAXYEAR }
        THEN status = "ValueError"
        ELSE /\ status = "ok"
             /\ sols[1] <= today /\ today < sols[2]
             /\ (sols[2] - sols[1]) \in { 182, 183 }
             /\ sols[1] = Max(PastSols(today))
             /\ sols[2] = Min(FutureSols(today))
             /\ today \in Sols(today) => sols[1] = today

====
